---- MODULE Spec2Model ----
(***************************************************************************)
(* Model of src/app.js: the SimpleBoxing reaction-time trial engine.       *)
(*                                                                         *)
(* Numbers.  The program computes in IEEE doubles; the model computes in   *)
(* exact fixed point and only takes frames on which the program's          *)
(* arithmetic is exact at that resolution (FrameExact):                    *)
(*   - times are milliseconds (performance.now());                         *)
(*   - a coordinate c stands for c / CoordDen in normalized image space;   *)
(*   - a speed s stands for s / (CoordDen * SpeedDen) per second;          *)
(*   - noiseLevel and reactionTime are exact rationals <<num, den>> in     *)
(*     lowest terms (a speed in speed ticks, a time in seconds).           *)
(***************************************************************************)
EXTENDS Integers, Sequences, FiniteSets, TLC

VARIABLES
    state,          \* this.state
    signalTime,     \* this.signalTime (ms)
    moveStartTime,  \* this.moveStartTime (ms)
    reactionTime,   \* this.reactionTime (seconds, rational)
    peakSpeed,      \* this.peakSpeed (speed ticks)
    prevR, prevL,   \* this.prevR, this.prevL (a point or NULL)
    smoothR, smoothL, \* this.smoothR, this.smoothL (speed ticks)
    noiseSamples,   \* this.noiseSamples
    noiseLevel,     \* this.noiseLevel (speed ticks, rational)
    moveCounter,    \* this.moveCounter
    lastTime,       \* this.lastTime (ms)
    waitStart,      \* this.waitStart (ms)
    delay,          \* this.delay (ms, rational)
    clock,          \* the reading performance.now() gave last
    hist,           \* history: the last CONSEC_FRAMES update passes
    events          \* history: the events so far (see MaxEvents)

vars == <<state, signalTime, moveStartTime, reactionTime, peakSpeed, prevR,
          prevL, smoothR, smoothL, noiseSamples, noiseLevel, moveCounter,
          lastTime, waitStart, delay, clock, hist, events>>

trial == <<signalTime, moveStartTime, reactionTime, peakSpeed, noiseLevel>>

----------------------------------------------------------------------------
(* Bounds of the exploration *)

\* the clock is explored up to MaxTime ms
MaxTime == 84000
\* the subject moves soon after the cue: SIGNAL is explored up to
\* MaxSignal ms after signalTime
MaxSignal == 4000
\* at most MaxEvents times in a run a frame displaces a wrist, repeats the
\* timestamp of the frame before it, or comes without landmarks
MaxEvents == 2
\* the subject stands still for the calibration: its events fall on the
\* frame of its first sample and on those of its last LateFrames samples
LateFrames == 3

\* the frame period in ms
Tick == 1000
\* the time between two frames: a repeated timestamp, or one period
Advances == {0, Tick}

\* the values Math.random() takes, as rationals <<num, den>> in [0, 1)
Randoms == {<<0, 1>>, <<3999, 4000>>}

----------------------------------------------------------------------------
(* Representation *)

\* null; a point {x, y, z} is the tuple <<x, y, z>>
NULL == <<>>
CoordDen == 10 * 10
SpeedDen == 2 ^ 18

Abs(x) == IF x < 0 THEN -x ELSE x
Max(a, b) == IF a >= b THEN a ELSE b

RECURSIVE GCD(_, _)
GCD(a, b) == IF b = 0 THEN a ELSE GCD(b, a % b)

\* the rational n / d (d > 0) in lowest terms
Rat(n, d) ==
    LET g == GCD(Abs(n), d)
    IN  IF n = 0 THEN <<0, 1>> ELSE <<n \div g, d \div g>>

\* the square root of a perfect square
Sqrt(n, bound) == CHOOSE r \in 0..bound : r * r = n

\* the wrist positions a frame can report: points of the line through
\* (1,2,2), so that every distance is a whole number of coordinate ticks
Point(k) == <<k, 2 * k, 2 * k>>
\* the frames of landmarks: the code reads lm[15] and lm[16]
Landmarks ==
    { (15 :> Point(0) @@ 16 :> Point(0)),
      (15 :> Point(4) @@ 16 :> Point(0)),
      (15 :> Point(4) @@ 16 :> Point(20)) }

----------------------------------------------------------------------------
(* Program constants (constructor) *)

ALPHA == <<1, 2>>
NOISE_FRAMES == 30
START_FACTOR == 3
CONSEC_FRAMES == 2
MIN_START_VEL == (3 * CoordDen * SpeedDen) \div 100
MOVING_MS == 1000
RESULT_MS == 3000

\* 2000 + Math.random() * 2000, a rational
randDelay(u) == Rat(2000 * u[2] + u[1] * 2000, u[2])

\* ms > d, for d a rational
MoreThan(ms, d) == ms * d[2] > d[1]

dist(a, b) ==
    LET dx == a[1] - b[1]
        dy == a[2] - b[2]
        dz == a[3] - b[3]
    IN  Sqrt(dx * dx + dy * dy + dz * dz, Abs(dx) + Abs(dy) + Abs(dz))

\* d / dt with dt = dtMs / 1000: a rational in coordinate ticks per second
rawRate(curr, prev, dtMs) == Rat(dist(curr, prev) * 1000, dtMs)
\* the same in speed ticks
rawSpeed(curr, prev, dtMs) ==
    LET q == rawRate(curr, prev, dtMs) IN q[1] * (SpeedDen \div q[2])

\* velocity keeping the smoothed speed when there is nothing to measure
velocity_KeepsSmooth(curr, prev, prevSmooth, dtMs) ==
    IF prev = NULL \/ dtMs <= 0
    THEN [v |-> prevSmooth, pos |-> curr]
    ELSE LET raw == rawSpeed(curr, prev, dtMs)
             smooth == (ALPHA[1] * raw + (ALPHA[2] - ALPHA[1]) * prevSmooth)
                           \div ALPHA[2]
         IN  [v |-> smooth, pos |-> curr]

\* velocity(curr, prev, prevSmooth, dt) with dt = dtMs / 1000
velocity(curr, prev, prevSmooth, dtMs) ==
    IF prev = NULL \/ dtMs <= 0
    THEN [v |-> 0, pos |-> curr]
    ELSE LET raw == rawSpeed(curr, prev, dtMs)
             smooth == (ALPHA[1] * raw + (ALPHA[2] - ALPHA[1]) * prevSmooth)
                           \div ALPHA[2]
         IN  [v |-> smooth, pos |-> curr]

\* the divisions of velocity leave no remainder
velocityExact(curr, prev, prevSmooth, dtMs) ==
    IF prev = NULL \/ dtMs <= 0
    THEN TRUE
    ELSE /\ SpeedDen % rawRate(curr, prev, dtMs)[2] = 0
         /\ (ALPHA[1] * rawSpeed(curr, prev, dtMs)
               + (ALPHA[2] - ALPHA[1]) * prevSmooth) % ALPHA[2] = 0

RECURSIVE SumSeq(_)
SumSeq(s) == IF s = <<>> THEN 0 ELSE Head(s) + SumSeq(Tail(s))

\* the average leaving the first sample out of the sum
average_SkipsFirst(samples) == Rat(SumSeq(Tail(samples)), Len(samples))

\* noiseSamples.reduce((a, b) => a + b, 0) / noiseSamples.length
average(samples) == Rat(SumSeq(samples), Len(samples))

\* Math.max(noiseLevel * START_FACTOR, MIN_START_VEL), a rational
startThreshold(level) ==
    IF level[1] * START_FACTOR >= MIN_START_VEL * level[2]
    THEN Rat(level[1] * START_FACTOR, level[2])
    ELSE <<MIN_START_VEL, 1>>

\* maxV and startThreshold are equal as reals
Tied(maxV, level) ==
    LET t == startThreshold(level) IN maxV * t[2] = t[1]

\* maxV >= startThreshold
aboveThreshold_OrEqual(maxV, level, up) ==
    LET t == startThreshold(level) IN maxV * t[2] >= t[1]

\* maxV > startThreshold, a comparison of two doubles. The speeds of the
\* model are the exact values; the doubles of the code are these up to
\* rounding, so that where maxV and the threshold are equal as reals the
\* code answers true or false as its roundings fall (0.45 > 3 * 0.15 is
\* true, 0.75 > 3 * 0.25 is false). up is that answer.
aboveThreshold(maxV, level, up) ==
    LET t == startThreshold(level)
    IN  IF Tied(maxV, level) THEN up ELSE maxV * t[2] > t[1]

----------------------------------------------------------------------------
(* The constructor *)

Init ==
    /\ clock = 0
    /\ state = "INIT"
    /\ signalTime = 0
    /\ moveStartTime = 0
    /\ reactionTime = <<0, 1>>
    /\ peakSpeed = 0
    /\ prevR = NULL
    /\ prevL = NULL
    /\ smoothR = 0
    /\ smoothL = 0
    /\ noiseSamples = <<>>
    /\ noiseLevel = <<0, 1>>
    /\ moveCounter = 0
    /\ lastTime = clock
    /\ waitStart = clock
    /\ \E u \in Randoms : delay = randDelay(u)
    /\ hist = <<>>
    /\ events = 0

----------------------------------------------------------------------------
(* update(lm): the part every pass runs (lines 94-109) *)

estR(lm, now) == velocity(lm[15], prevR, smoothR, now - lastTime)
estL(lm, now) == velocity(lm[16], prevL, smoothL, now - lastTime)
maxVof(lm, now) == Max(estR(lm, now).v, estL(lm, now).v)

FrameExact(lm, now) ==
    /\ velocityExact(lm[15], prevR, smoothR, now - lastTime)
    /\ velocityExact(lm[16], prevL, smoothL, now - lastTime)

\* the frame displaces a wrist
Displaces(lm) ==
    (prevR # NULL /\ lm[15] # prevR) \/ (prevL # NULL /\ lm[16] # prevL)

\* what the frame adds to the count of events
Cost(lm, adv) ==
    (IF Displaces(lm) THEN 1 ELSE 0) + (IF adv = 0 THEN 1 ELSE 0)

\* the calibration is in its still part
Quiet ==
    /\ state = "CALM"
    /\ Len(noiseSamples) >= 1
    /\ Len(noiseSamples) < NOISE_FRAMES - LateFrames

\* the clock reading now is within the bounds of the exploration
InTime(now) ==
    /\ now <= MaxTime
    /\ state = "SIGNAL" => now - signalTime <= MaxSignal

\* the events of the frame are within the bounds of the exploration
Budget(lm, adv) ==
    /\ events + Cost(lm, adv) <= MaxEvents
    /\ Quiet => Cost(lm, adv) = 0

\* a frame with landmarks arrives adv ms after the last clock reading
Frame(lm, adv) ==
    /\ InTime(clock + adv)
    /\ FrameExact(lm, clock + adv)
    /\ clock' = clock + adv
    /\ lastTime' = clock + adv
    /\ events' = events + Cost(lm, adv)

\* lines 101-107
Estimate(lm, now) ==
    /\ smoothR' = estR(lm, now).v
    /\ smoothL' = estL(lm, now).v
    /\ prevR' = estR(lm, now).pos
    /\ prevL' = estL(lm, now).pos

\* history of the pass: the phase it began in, its maxV as a real, and
\* whether its maxV equals the threshold as a real while the double the
\* code holds for it is above the double of the threshold
Push(e) ==
    hist' = IF Len(hist) < CONSEC_FRAMES
            THEN Append(hist, e)
            ELSE Append(Tail(hist), e)

\* the history of a pass that compares nothing with the threshold
Record(lm, now) ==
    Push([from |-> state, maxV |-> maxVof(lm, now), up |-> FALSE])

\* the history of a SIGNAL pass
RecordCompared(lm, now, up) ==
    Push([from |-> state, maxV |-> maxVof(lm, now),
          up |-> Tied(maxVof(lm, now), noiseLevel) /\ up])

\* reset() sending the machine back to INIT
reset_toInit ==
    /\ state' = "INIT"
    /\ noiseSamples' = <<>>
    /\ moveCounter' = 0
    /\ prevR' = NULL
    /\ prevL' = NULL
    /\ smoothR' = 0
    /\ smoothL' = 0

\* reset() keeping the samples of the trial before
reset_KeepsSamples ==
    /\ state' = "CALM"
    /\ noiseSamples' = noiseSamples
    /\ moveCounter' = 0
    /\ prevR' = NULL
    /\ prevL' = NULL
    /\ smoothR' = 0
    /\ smoothL' = 0

\* reset() keeping the wrist positions
reset_KeepsPositions ==
    /\ state' = "CALM"
    /\ noiseSamples' = <<>>
    /\ moveCounter' = 0
    /\ prevR' = prevR
    /\ prevL' = prevL
    /\ smoothR' = 0
    /\ smoothL' = 0

\* reset() keeping the onset counter
reset_KeepsCounter ==
    /\ state' = "CALM"
    /\ noiseSamples' = <<>>
    /\ moveCounter' = moveCounter
    /\ prevR' = NULL
    /\ prevL' = NULL
    /\ smoothR' = 0
    /\ smoothL' = 0

\* reset()
reset ==
    /\ state' = "CALM"
    /\ noiseSamples' = <<>>
    /\ moveCounter' = 0
    /\ prevR' = NULL
    /\ prevL' = NULL
    /\ smoothR' = 0
    /\ smoothL' = 0

----------------------------------------------------------------------------
(* update(lm), one action per phase the pass begins in *)

UpdateInit(lm, adv) ==
    /\ state = "INIT"
    /\ Frame(lm, adv)
    /\ Estimate(lm, clock + adv)
    /\ Record(lm, clock + adv)
    /\ state' = "CALM"
    /\ noiseSamples' = <<>>
    /\ UNCHANGED <<signalTime, moveStartTime, reactionTime, peakSpeed,
                   noiseLevel, moveCounter, waitStart, delay>>

\* the CALM pass waiting for one sample too many
UpdateCalm_OneMore(lm, adv, u) ==
    LET now == clock + adv
        pushed == Append(noiseSamples, maxVof(lm, now))
    IN  /\ state = "CALM"
        /\ Frame(lm, adv)
        /\ Estimate(lm, now)
        /\ Record(lm, now)
        /\ noiseSamples' = pushed
        /\ IF Len(pushed) > NOISE_FRAMES
           THEN /\ noiseLevel' = average(pushed)
                /\ state' = "WAIT"
                /\ waitStart' = now
                /\ delay' = randDelay(u)
           ELSE /\ u = <<0, 1>>
                /\ UNCHANGED <<noiseLevel, state, waitStart, delay>>
        /\ UNCHANGED <<signalTime, moveStartTime, reactionTime, peakSpeed,
                       moveCounter>>

UpdateCalm(lm, adv, u) ==
    LET now == clock + adv
        pushed == Append(noiseSamples, maxVof(lm, now))
    IN  /\ state = "CALM"
        /\ Frame(lm, adv)
        /\ Estimate(lm, now)
        /\ Record(lm, now)
        /\ noiseSamples' = pushed
        /\ IF Len(pushed) >= NOISE_FRAMES
           THEN /\ noiseLevel' = average(pushed)
                /\ state' = "WAIT"
                /\ waitStart' = now
                /\ delay' = randDelay(u)
           ELSE /\ u = <<0, 1>>
                /\ UNCHANGED <<noiseLevel, state, waitStart, delay>>
        /\ UNCHANGED <<signalTime, moveStartTime, reactionTime, peakSpeed,
                       moveCounter>>

\* the WAIT pass leaving as soon as the delay is reached
UpdateWait_AtLeast(lm, adv) ==
    LET now == clock + adv
    IN  /\ state = "WAIT"
        /\ Frame(lm, adv)
        /\ Estimate(lm, now)
        /\ Record(lm, now)
        /\ IF (now - waitStart) * delay[2] >= delay[1]
           THEN /\ state' = "SIGNAL"
                /\ signalTime' = now
                /\ moveCounter' = 0
           ELSE UNCHANGED <<state, signalTime, moveCounter>>
        /\ UNCHANGED <<moveStartTime, reactionTime, peakSpeed, noiseSamples,
                       noiseLevel, waitStart, delay>>

\* the WAIT pass starting the delay anew while it has not elapsed
UpdateWait_Rearms(lm, adv) ==
    LET now == clock + adv
    IN  /\ state = "WAIT"
        /\ Frame(lm, adv)
        /\ Estimate(lm, now)
        /\ Record(lm, now)
        /\ IF MoreThan(now - waitStart, delay)
           THEN /\ state' = "SIGNAL"
                /\ signalTime' = now
                /\ moveCounter' = 0
                /\ waitStart' = waitStart
           ELSE /\ waitStart' = now
                /\ UNCHANGED <<state, signalTime, moveCounter>>
        /\ UNCHANGED <<moveStartTime, reactionTime, peakSpeed, noiseSamples,
                       noiseLevel, delay>>

UpdateWait(lm, adv) ==
    LET now == clock + adv
    IN  /\ state = "WAIT"
        /\ Frame(lm, adv)
        /\ Estimate(lm, now)
        /\ Record(lm, now)
        /\ IF MoreThan(now - waitStart, delay)
           THEN /\ state' = "SIGNAL"
                /\ signalTime' = now
                /\ moveCounter' = 0
           ELSE UNCHANGED <<state, signalTime, moveCounter>>
        /\ UNCHANGED <<moveStartTime, reactionTime, peakSpeed, noiseSamples,
                       noiseLevel, waitStart, delay>>

\* the SIGNAL pass keeping its count over a frame below the threshold
UpdateSignal_NoDebounce(lm, adv, up) ==
    LET now == clock + adv
        counted == IF aboveThreshold(maxVof(lm, now), noiseLevel, up)
                   THEN moveCounter + 1
                   ELSE moveCounter
    IN  /\ state = "SIGNAL"
        /\ Frame(lm, adv)
        /\ Estimate(lm, now)
        /\ RecordCompared(lm, now, up)
        /\ moveCounter' = counted
        /\ IF counted >= CONSEC_FRAMES
           THEN /\ moveStartTime' = now
                /\ reactionTime' = Rat(now - signalTime, 1000)
                /\ peakSpeed' = 0
                /\ state' = "MOVING"
           ELSE UNCHANGED <<moveStartTime, reactionTime, peakSpeed, state>>
        /\ UNCHANGED <<signalTime, noiseSamples, noiseLevel, waitStart, delay>>

\* the SIGNAL pass subtracting the timestamps the wrong way round
UpdateSignal_Reversed(lm, adv, up) ==
    LET now == clock + adv
        counted == IF aboveThreshold(maxVof(lm, now), noiseLevel, up)
                   THEN moveCounter + 1
                   ELSE 0
    IN  /\ state = "SIGNAL"
        /\ Frame(lm, adv)
        /\ Estimate(lm, now)
        /\ RecordCompared(lm, now, up)
        /\ moveCounter' = counted
        /\ IF counted >= CONSEC_FRAMES
           THEN /\ moveStartTime' = now
                /\ reactionTime' = Rat(signalTime - now, 1000)
                /\ peakSpeed' = 0
                /\ state' = "MOVING"
           ELSE UNCHANGED <<moveStartTime, reactionTime, peakSpeed, state>>
        /\ UNCHANGED <<signalTime, noiseSamples, noiseLevel, waitStart, delay>>

UpdateSignal(lm, adv, up) ==
    LET now == clock + adv
        counted == IF aboveThreshold(maxVof(lm, now), noiseLevel, up)
                   THEN moveCounter + 1
                   ELSE 0
    IN  /\ state = "SIGNAL"
        /\ Frame(lm, adv)
        /\ Estimate(lm, now)
        /\ RecordCompared(lm, now, up)
        /\ moveCounter' = counted
        /\ IF counted >= CONSEC_FRAMES
           THEN /\ moveStartTime' = now
                /\ reactionTime' = Rat(now - signalTime, 1000)
                /\ peakSpeed' = 0
                /\ state' = "MOVING"
           ELSE UNCHANGED <<moveStartTime, reactionTime, peakSpeed, state>>
        /\ UNCHANGED <<signalTime, noiseSamples, noiseLevel, waitStart, delay>>

\* the MOVING pass ending the window as soon as it is reached
UpdateMoving_AtLeast(lm, adv) ==
    LET now == clock + adv
    IN  /\ state = "MOVING"
        /\ Frame(lm, adv)
        /\ Estimate(lm, now)
        /\ Record(lm, now)
        /\ peakSpeed' = Max(peakSpeed, maxVof(lm, now))
        /\ state' = IF now - moveStartTime >= MOVING_MS THEN "RESULT" ELSE state
        /\ UNCHANGED <<signalTime, moveStartTime, reactionTime, noiseSamples,
                       noiseLevel, moveCounter, waitStart, delay>>

\* the MOVING pass keeping the reaction time running
UpdateMoving_Retimes(lm, adv) ==
    LET now == clock + adv
    IN  /\ state = "MOVING"
        /\ Frame(lm, adv)
        /\ Estimate(lm, now)
        /\ Record(lm, now)
        /\ peakSpeed' = Max(peakSpeed, maxVof(lm, now))
        /\ reactionTime' = Rat(now - signalTime, 1000)
        /\ state' = IF now - moveStartTime > MOVING_MS THEN "RESULT" ELSE state
        /\ UNCHANGED <<signalTime, moveStartTime, noiseSamples,
                       noiseLevel, moveCounter, waitStart, delay>>

\* the MOVING pass storing the current speed instead of the maximum
UpdateMoving_NoMax(lm, adv) ==
    LET now == clock + adv
    IN  /\ state = "MOVING"
        /\ Frame(lm, adv)
        /\ Estimate(lm, now)
        /\ Record(lm, now)
        /\ peakSpeed' = maxVof(lm, now)
        /\ state' = IF now - moveStartTime > MOVING_MS THEN "RESULT" ELSE state
        /\ UNCHANGED <<signalTime, moveStartTime, reactionTime, noiseSamples,
                       noiseLevel, moveCounter, waitStart, delay>>

\* the MOVING pass leaving before it takes the speed of its frame
UpdateMoving_LeavesFirst(lm, adv) ==
    LET now == clock + adv
    IN  /\ state = "MOVING"
        /\ Frame(lm, adv)
        /\ Estimate(lm, now)
        /\ Record(lm, now)
        /\ IF now - moveStartTime > MOVING_MS
           THEN state' = "RESULT" /\ peakSpeed' = peakSpeed
           ELSE state' = state /\ peakSpeed' = Max(peakSpeed, maxVof(lm, now))
        /\ UNCHANGED <<signalTime, moveStartTime, reactionTime, noiseSamples,
                       noiseLevel, moveCounter, waitStart, delay>>

UpdateMoving(lm, adv) ==
    LET now == clock + adv
    IN  /\ state = "MOVING"
        /\ Frame(lm, adv)
        /\ Estimate(lm, now)
        /\ Record(lm, now)
        /\ peakSpeed' = Max(peakSpeed, maxVof(lm, now))
        /\ state' = IF now - moveStartTime > MOVING_MS THEN "RESULT" ELSE state
        /\ UNCHANGED <<signalTime, moveStartTime, reactionTime, noiseSamples,
                       noiseLevel, moveCounter, waitStart, delay>>

\* the RESULT pass whose reset clears the whole trial record
UpdateResult_FullReset(lm, adv) ==
    LET now == clock + adv
    IN  /\ state = "RESULT"
        /\ Frame(lm, adv)
        /\ Record(lm, now)
        /\ IF now - moveStartTime > RESULT_MS
           THEN /\ reset
                /\ signalTime' = 0
                /\ moveStartTime' = 0
                /\ reactionTime' = <<0, 1>>
                /\ peakSpeed' = 0
                /\ noiseLevel' = <<0, 1>>
           ELSE /\ Estimate(lm, now)
                /\ UNCHANGED <<state, noiseSamples, moveCounter>>
                /\ UNCHANGED trial
        /\ UNCHANGED <<waitStart, delay>>

\* the RESULT pass whose reset clears the peak speed too
UpdateResult_ClearsPeak(lm, adv) ==
    LET now == clock + adv
    IN  /\ state = "RESULT"
        /\ Frame(lm, adv)
        /\ Record(lm, now)
        /\ IF now - moveStartTime > RESULT_MS
           THEN reset /\ peakSpeed' = 0
           ELSE /\ Estimate(lm, now)
                /\ UNCHANGED <<state, noiseSamples, moveCounter, peakSpeed>>
        /\ UNCHANGED <<signalTime, moveStartTime, reactionTime, noiseLevel,
                       waitStart, delay>>

\* the RESULT pass whose reset clears the noise level too
UpdateResult_ClearsNoise(lm, adv) ==
    LET now == clock + adv
    IN  /\ state = "RESULT"
        /\ Frame(lm, adv)
        /\ Record(lm, now)
        /\ IF now - moveStartTime > RESULT_MS
           THEN reset /\ noiseLevel' = <<0, 1>>
           ELSE /\ Estimate(lm, now)
                /\ UNCHANGED <<state, noiseSamples, moveCounter, noiseLevel>>
        /\ UNCHANGED <<signalTime, moveStartTime, reactionTime, peakSpeed,
                       waitStart, delay>>

UpdateResult(lm, adv) ==
    LET now == clock + adv
    IN  /\ state = "RESULT"
        /\ Frame(lm, adv)
        /\ Record(lm, now)
        /\ IF now - moveStartTime > RESULT_MS
           THEN reset
           ELSE /\ Estimate(lm, now)
                /\ UNCHANGED <<state, noiseSamples, moveCounter>>
        /\ UNCHANGED <<signalTime, moveStartTime, reactionTime, peakSpeed,
                       noiseLevel, waitStart, delay>>

\* onResults without results.poseLandmarks: update is not called
\* a frame without landmarks forgetting the wrist positions
NoLandmarks_DropsPrev ==
    /\ InTime(clock + Tick)
    /\ events < MaxEvents
    /\ ~Quiet
    /\ clock' = clock + Tick
    /\ events' = events + 1
    /\ prevR' = NULL
    /\ prevL' = NULL
    /\ UNCHANGED <<state, signalTime, moveStartTime, reactionTime, peakSpeed,
                   smoothR, smoothL, noiseSamples, noiseLevel,
                   moveCounter, lastTime, waitStart, delay, hist>>

NoLandmarks ==
    /\ InTime(clock + Tick)
    /\ events < MaxEvents
    /\ ~Quiet
    /\ clock' = clock + Tick
    /\ events' = events + 1
    /\ UNCHANGED <<state, signalTime, moveStartTime, reactionTime, peakSpeed,
                   prevR, prevL, smoothR, smoothL, noiseSamples, noiseLevel,
                   moveCounter, lastTime, waitStart, delay, hist>>

Next ==
    \/ \E lm \in Landmarks, adv \in Advances :
          Budget(lm, adv) /\ UpdateInit(lm, adv)
    \/ \E lm \in Landmarks, adv \in Advances, u \in Randoms :
          Budget(lm, adv) /\ UpdateCalm(lm, adv, u)
    \/ \E lm \in Landmarks, adv \in Advances :
          Budget(lm, adv) /\ UpdateWait(lm, adv)
    \/ \E lm \in Landmarks, adv \in Advances, up \in BOOLEAN :
          Budget(lm, adv) /\ UpdateSignal(lm, adv, up)
    \/ \E lm \in Landmarks, adv \in Advances :
          Budget(lm, adv) /\ UpdateMoving(lm, adv)
    \/ \E lm \in Landmarks, adv \in Advances :
          Budget(lm, adv) /\ UpdateResult(lm, adv)
    \/ NoLandmarks

Spec == Init /\ [][Next]_vars

----------------------------------------------------------------------------
(* velocity alone. The values of prevR, prevL, smoothR and smoothL that
   VelocityInit draws are arguments given to velocity, among them some that
   no run of update gives it (a previous position absent with a smoothed
   speed above 0, a negative dt); the other variables are as the constructor
   leaves them *)

\* the smoothed speeds velocity starts from
Smooths == {0, 2 * SpeedDen, 6 * SpeedDen}
\* the values of dt, in ms
Deltas == {0 - Tick, 0, Tick, 2 * Tick}
\* the previous positions velocity starts from
Previous == {NULL, Point(0), Point(4)}

VelocityInit ==
    /\ clock = Tick
    /\ lastTime = clock
    /\ state = "INIT"
    /\ signalTime = 0
    /\ moveStartTime = 0
    /\ reactionTime = <<0, 1>>
    /\ peakSpeed = 0
    /\ prevR \in Previous
    /\ prevL \in Previous
    /\ smoothR \in Smooths
    /\ smoothL \in Smooths
    /\ noiseSamples = <<>>
    /\ noiseLevel = <<0, 1>>
    /\ moveCounter = 0
    /\ waitStart = clock
    /\ \E u \in Randoms : delay = randDelay(u)
    /\ hist = <<>>
    /\ events = 0

\* velocity applied to both wrists of frame lm with dt = dtMs / 1000;
\* hist keeps the arguments, events counts the applications
ApplyVelocity(lm, dtMs) ==
    /\ events < MaxEvents
    /\ FrameExact(lm, lastTime + dtMs)
    /\ Estimate(lm, lastTime + dtMs)
    /\ clock' = lastTime + dtMs
    /\ hist' = <<prevR, prevL, smoothR, smoothL>>
    /\ events' = events + 1
    /\ UNCHANGED <<state, signalTime, moveStartTime, reactionTime, peakSpeed,
                   noiseSamples, noiseLevel, moveCounter, lastTime,
                   waitStart, delay>>

VelocityNext == \E lm \in Landmarks, dtMs \in Deltas : ApplyVelocity(lm, dtMs)

SpecVelocity == VelocityInit /\ [][VelocityNext]_vars

----------------------------------------------------------------------------
(* One trial with the subject in steady motion: frames one Tick apart, each
   displacing one wrist along the x axis so that the speed of the frame,
   max(smoothR, smoothL), is the one its phase asks for: 0.01 while
   calibrating and waiting, 0.01 or 0.5 after the cue until two frames in a
   row have 0.5, 0.9 on the first frame in MOVING, and no displacement
   after it *)

\* a wrist moves at most MaxStep coordinate ticks in a frame
MaxStep == 130

\* the point at k coordinate ticks on the x axis
OnAxis(k) == <<k, 0, 0>>
\* h hundredths per second, in speed ticks
Speed(h) == ((h * CoordDen) \div 100) * SpeedDen

\* the frame that displaces no wrist
Still == (15 :> prevR @@ 16 :> prevL)

\* the frames that displace one wrist and have the speed v
AtSpeed(v) ==
    LET right == { (15 :> OnAxis(prevR[1] + d) @@ 16 :> prevL) :
                      d \in 0..MaxStep }
        left == { (15 :> prevR @@ 16 :> OnAxis(prevL[1] + d)) :
                      d \in 0..MaxStep }
    IN  { lm \in right \cup left :
             FrameExact(lm, clock + Tick) /\ maxVof(lm, clock + Tick) = v }

\* the trial is over
TrialDone == state = "CALM" /\ moveStartTime > 0

\* the frames the subject in steady motion gives next
TrialFrames ==
    IF TrialDone THEN {}
    ELSE IF state = "INIT" THEN {(15 :> OnAxis(0) @@ 16 :> OnAxis(0))}
    ELSE IF state \in {"CALM", "WAIT"} THEN AtSpeed(Speed(1))
    ELSE IF state = "SIGNAL" /\ moveCounter = 0
         THEN AtSpeed(Speed(1)) \cup AtSpeed(Speed(50))
    ELSE IF state = "SIGNAL" THEN AtSpeed(Speed(50))
    ELSE IF state = "MOVING" /\ peakSpeed = 0 THEN AtSpeed(Speed(90))
    ELSE {Still}

TrialNext ==
    \/ \E lm \in TrialFrames : UpdateInit(lm, Tick)
    \/ \E lm \in TrialFrames, u \in Randoms : UpdateCalm(lm, Tick, u)
    \/ \E lm \in TrialFrames : UpdateWait(lm, Tick)
    \/ \E lm \in TrialFrames, up \in BOOLEAN : UpdateSignal(lm, Tick, up)
    \/ \E lm \in TrialFrames : UpdateMoving(lm, Tick)
    \/ \E lm \in TrialFrames : UpdateResult(lm, Tick)

SpecTrial == Init /\ [][TrialNext]_vars

----------------------------------------------------------------------------
(* Properties *)

Phases == {"INIT", "CALM", "WAIT", "SIGNAL", "MOVING", "RESULT"}

\* the phase after p in the order of the trial, RESULT looping back to CALM
Successor(p) ==
    CASE p = "INIT" -> "CALM"
      [] p = "CALM" -> "WAIT"
      [] p = "WAIT" -> "SIGNAL"
      [] p = "SIGNAL" -> "MOVING"
      [] p = "MOVING" -> "RESULT"
      [] p = "RESULT" -> "CALM"

\* the step is an update pass (a frame with landmarks)
UpdatePass == lastTime' = clock'

\* the step is the onset pass
Onset == state = "SIGNAL" /\ state' = "MOVING"

\* C1: the phase is always one of the six; a step keeps it or moves it to
\* its successor (RESULT's being CALM), and INIT is never entered again.
C1_PhaseOrder ==
    [][ /\ state \in Phases
        /\ state' \in Phases
        /\ state' = state \/ state' = Successor(state)
        /\ state' # "INIT" \/ state = "INIT" ]_vars

\* a second trial has begun: CALM after a completed RESULT
C1_Witness == state = "CALM" /\ moveStartTime > 0 /\ noiseSamples = <<>>

\* C2: reactionTime is written by the onset pass alone, which sets it to the
\* time from signalTime to moveStartTime (in seconds); every other step,
\* the passes in MOVING and RESULT and the reset included, leaves it alone.
C2_ReactionTimeSetOnce ==
    [][ IF Onset
        THEN /\ moveStartTime' = clock'
             /\ reactionTime'[1] * 1000 =
                    (moveStartTime' - signalTime') * reactionTime'[2]
        ELSE reactionTime' = reactionTime ]_vars

\* the trial is over and its reaction time is still the one of the onset
C2_Witness ==
    /\ state = "CALM"
    /\ reactionTime[1] > 0
    /\ reactionTime[1] * 1000 = (moveStartTime - signalTime) * reactionTime[2]

\* C3: the reaction time is never negative, and in MOVING and RESULT the
\* onset is not before the signal.
C3_OnsetAfterSignal ==
    /\ reactionTime[1] >= 0
    /\ state \in {"MOVING", "RESULT"} => signalTime <= moveStartTime

\* an onset has been recorded after its signal
C3_Witness == state = "MOVING" /\ signalTime < moveStartTime

\* C4: the onset pass leaves peakSpeed at 0, and no step taken in MOVING
\* lowers it.
C4_PeakMonotone ==
    [][ /\ Onset => peakSpeed' = 0
        /\ state = "MOVING" => peakSpeed' >= peakSpeed ]_vars

\* in MOVING the peak stands above the speed of the latest pass
C4_Witness ==
    state = "MOVING" /\ peakSpeed > Max(smoothR, smoothL) /\ peakSpeed > 0

\* C5 as claimed: a step taken in INIT, CALM, WAIT, SIGNAL or RESULT (the
\* reset included) leaves peakSpeed unchanged.
C5_OnlyInMoving == [][ state # "MOVING" => peakSpeed' = peakSpeed ]_vars

\* C5 as amended: peakSpeed is changed by the passes taken in MOVING and by
\* the onset pass, which begins in SIGNAL and sets it to 0; every other
\* step, the reset included, leaves it unchanged.
C5_MovingOrOnset ==
    [][ /\ (state # "MOVING" /\ ~Onset) => peakSpeed' = peakSpeed
        /\ Onset => peakSpeed' = 0 ]_vars

\* the onset of a second trial has cleared the peak of the first
C5_Witness ==
    /\ state = "MOVING"
    /\ peakSpeed = 0
    /\ moveStartTime = clock
    /\ clock > 2 * NOISE_FRAMES * Tick

\* the phases after the calibration
Calibrated == {"WAIT", "SIGNAL", "MOVING", "RESULT"}

\* C6: noiseLevel is written by the CALM->WAIT pass alone; no step taken in
\* WAIT, SIGNAL, MOVING or RESULT changes it.
C6_NoiseLevelFixed ==
    [][ noiseLevel' # noiseLevel => state = "CALM" /\ state' = "WAIT" ]_vars

\* a trial has ended with the noise level its calibration measured
C6_Witness ==
    state = "CALM" /\ moveStartTime > 0 /\ noiseLevel[1] > 0

\* the speed of the pass a step makes, read from the state it leaves
PassMaxV == Max(smoothR', smoothL')

\* C7: a CALM pass appends its max-of-wrists speed; it moves to WAIT exactly
\* when that sample is the NOISE_FRAMES-th since CALM was entered, and then
\* noiseLevel is the mean of the samples (v when they all are v); the
\* buffer never holds more than NOISE_FRAMES samples.
C7_Calibration ==
    [][ /\ Len(noiseSamples') <= NOISE_FRAMES
        /\ (state = "CALM" /\ UpdatePass) =>
              /\ noiseSamples' = Append(noiseSamples, PassMaxV)
              /\ state' = "WAIT" <=> Len(noiseSamples') = NOISE_FRAMES
              /\ state' = "WAIT" =>
                    /\ noiseLevel'[1] * NOISE_FRAMES =
                          SumSeq(noiseSamples') * noiseLevel'[2]
                    /\ (\A i \in 1..NOISE_FRAMES :
                            noiseSamples'[i] = noiseSamples'[1])
                          => noiseLevel' = <<noiseSamples'[1], 1>>
              /\ state' = "CALM" => noiseLevel' = noiseLevel ]_vars

\* the calibration has ended on samples that are not all alike
C7_Witness ==
    /\ state = "WAIT"
    /\ Len(noiseSamples) = NOISE_FRAMES
    /\ noiseSamples[NOISE_FRAMES] > noiseSamples[NOISE_FRAMES - 1]
    /\ noiseSamples[NOISE_FRAMES - 1] > 0
    /\ noiseLevel[1] * NOISE_FRAMES = SumSeq(noiseSamples) * noiseLevel[2]

\* C8 as claimed: the buffer is empty in WAIT, SIGNAL, MOVING and RESULT.
C8_EmptyAfterCalm == state \in Calibrated => noiseSamples = <<>>

\* C8 as amended: the buffer is not cleared at CALM->WAIT; it holds the
\* NOISE_FRAMES samples of the calibration throughout WAIT, SIGNAL, MOVING
\* and RESULT, and it is empty right after INIT->CALM and RESULT->CALM.
C8_BufferKept ==
    /\ [](state \in Calibrated => Len(noiseSamples) = NOISE_FRAMES)
    /\ [][ (state # "CALM" /\ state' = "CALM") => noiseSamples' = <<>> ]_vars

\* CALM has been entered again from RESULT
C8_Witness ==
    /\ state = "CALM"
    /\ Len(hist) = CONSEC_FRAMES
    /\ hist[CONSEC_FRAMES].from = "RESULT"
    /\ noiseSamples = <<>>

\* maxV is above the threshold the noise level gives, as reals
Above(maxV) ==
    /\ maxV * noiseLevel[2] > noiseLevel[1] * START_FACTOR
    /\ maxV > MIN_START_VEL

\* maxV is above the threshold or equal to it, as reals: what the doubles
\* of the code can find above the threshold
AboveOrTied(maxV) ==
    /\ maxV * noiseLevel[2] >= noiseLevel[1] * START_FACTOR
    /\ maxV >= MIN_START_VEL

\* the SIGNAL pass has found its frame above the threshold
Counted == moveCounter' = moveCounter + 1

\* C9: a SIGNAL pass that finds its frame at or below the threshold stays
\* in SIGNAL with the counter at 0, whatever came before it; and a pass that
\* finds the counter short of CONSEC_FRAMES - 1 stays in SIGNAL, so one
\* frame above the threshold is never an onset. The pass finds the frame
\* above the threshold when it is above it as reals, not above it when it
\* is below it as reals, and either when the two are equal as reals.
C9_Debounce ==
    [][ (state = "SIGNAL" /\ UpdatePass) =>
          /\ Counted \/ moveCounter' = 0
          /\ Above(PassMaxV) => Counted
          /\ ~AboveOrTied(PassMaxV) => ~Counted
          /\ ~Counted => state' = "SIGNAL" /\ moveCounter' = 0
          /\ moveCounter < CONSEC_FRAMES - 1 => state' = "SIGNAL" ]_vars

\* in SIGNAL a frame above the threshold was followed by one not above it
C9_Witness ==
    /\ state = "SIGNAL"
    /\ moveCounter = 0
    /\ Len(hist) = CONSEC_FRAMES
    /\ \A i \in 1..CONSEC_FRAMES : hist[i].from = "SIGNAL"
    /\ \A i \in 1..(CONSEC_FRAMES - 1) : Above(hist[i].maxV)
    /\ ~AboveOrTied(hist[CONSEC_FRAMES].maxV)

\* the last CONSEC_FRAMES passes began in SIGNAL above the threshold
RunAbove(h) ==
    /\ Len(h) = CONSEC_FRAMES
    /\ \A i \in 1..CONSEC_FRAMES : h[i].from = "SIGNAL" /\ Above(h[i].maxV)

\* the speed of the pass e, as the double the code holds, is strictly
\* greater than the threshold: greater as a real, or equal as a real and
\* rounded above it
Greater(e) == Above(e.maxV) \/ (AboveOrTied(e.maxV) /\ e.up)

\* the last CONSEC_FRAMES passes began in SIGNAL with a speed strictly
\* greater than the threshold
RunGreater(h) ==
    /\ Len(h) = CONSEC_FRAMES
    /\ \A i \in 1..CONSEC_FRAMES : h[i].from = "SIGNAL" /\ Greater(h[i])

\* C10: a pass is the onset exactly when it and the CONSEC_FRAMES - 1 passes
\* before it began in SIGNAL with a speed strictly greater than
\* max(noiseLevel * START_FACTOR, MIN_START_VEL); so the speed of an onset
\* is strictly greater than MIN_START_VEL, also when noiseLevel = 0. The
\* speeds are those the code compares: a speed equal to the threshold as a
\* real is strictly greater only where its double is (up), and a pass whose
\* speed equals the threshold and is not rounded above it is no onset.
C10_OnsetIffRun ==
    [][ UpdatePass =>
          /\ Onset <=> RunGreater(hist')
          /\ (state = "SIGNAL" /\ Counted) <=>
                (state = "SIGNAL" /\ Greater(hist'[Len(hist')]))
          /\ Onset =>
                \/ PassMaxV > MIN_START_VEL
                \/ PassMaxV = MIN_START_VEL /\ hist'[CONSEC_FRAMES].up
          /\ hist'[Len(hist')].up =>
                /\ state = "SIGNAL"
                /\ AboveOrTied(PassMaxV) /\ ~Above(PassMaxV) ]_vars

\* with noiseLevel = 0, a frame above MIN_START_VEL was followed by one
\* whose speed is MIN_START_VEL and not above it for the code: no onset
C10_Witness ==
    /\ state = "SIGNAL"
    /\ noiseLevel = <<0, 1>>
    /\ moveCounter = 0
    /\ lastTime = clock
    /\ Len(hist) = CONSEC_FRAMES
    /\ hist[CONSEC_FRAMES - 1].from = "SIGNAL"
    /\ hist[CONSEC_FRAMES - 1].maxV > MIN_START_VEL
    /\ hist[CONSEC_FRAMES] =
          [from |-> "SIGNAL", maxV |-> MIN_START_VEL, up |-> FALSE]

\* an onset with noiseLevel = 0, under the threshold MIN_START_VEL
C10_FloorOnset ==
    /\ state = "MOVING"
    /\ moveStartTime = clock
    /\ noiseLevel = <<0, 1>>
    /\ RunAbove(hist)

\* an onset under a threshold the noise level sets
C10_NoiseOnset ==
    /\ state = "MOVING"
    /\ RunAbove(hist)
    /\ noiseLevel[1] * START_FACTOR > MIN_START_VEL * noiseLevel[2]

\* an onset on a frame whose speed is MIN_START_VEL as a real and above it
\* as the double of the code
C10_TieOnset ==
    /\ state = "MOVING"
    /\ moveStartTime = clock
    /\ hist[CONSEC_FRAMES] =
          [from |-> "SIGNAL", maxV |-> MIN_START_VEL, up |-> TRUE]

\* C11 as claimed: a WAIT pass moves to SIGNAL exactly when the time since
\* waitStart is at least the delay.
C11_AtLeastDelay ==
    [][ (state = "WAIT" /\ UpdatePass) =>
          (state' = "SIGNAL" <=>
             (clock' - waitStart) * delay[2] >= delay[1]) ]_vars

\* C11 as amended: a WAIT pass moves to SIGNAL exactly when the time since
\* waitStart is more than the delay, a value of [2000, 4000) drawn at
\* CALM->WAIT; the pass records signalTime = now and leaves the counter at 0,
\* and SIGNAL is entered more than 2000 ms after waitStart.
C11_MoreThanDelay ==
    [][ /\ (state = "CALM" /\ state' = "WAIT") =>
              /\ waitStart' = clock'
              /\ delay'[1] >= 2000 * delay'[2]
              /\ delay'[1] < 4000 * delay'[2]
        /\ state = "WAIT" => waitStart' = waitStart /\ delay' = delay
        /\ (state = "WAIT" /\ UpdatePass) =>
              /\ state' = "SIGNAL" <=>
                    (clock' - waitStart) * delay[2] > delay[1]
              /\ state' = "SIGNAL" =>
                    /\ signalTime' = clock'
                    /\ moveCounter' = 0
                    /\ signalTime' - waitStart > 2000
        /\ (state = "WAIT" /\ ~UpdatePass) => state' = "WAIT" ]_vars

\* SIGNAL came a frame after the one that reached the delay exactly
C11_Witness ==
    /\ state = "SIGNAL"
    /\ signalTime = clock
    /\ (signalTime - waitStart - Tick) * delay[2] = delay[1]

\* C12: a MOVING pass moves to RESULT exactly when more than MOVING_MS have
\* passed since moveStartTime, a RESULT pass moves to CALM exactly when more
\* than RESULT_MS have passed since the same moveStartTime, which neither
\* phase changes.
C12_Windows ==
    [][ /\ state \in {"MOVING", "RESULT"} => moveStartTime' = moveStartTime
        /\ (state = "MOVING" /\ UpdatePass) =>
              (state' = "RESULT" <=> clock' - moveStartTime > MOVING_MS)
        /\ (state = "RESULT" /\ UpdatePass) =>
              (state' = "CALM" <=> clock' - moveStartTime > RESULT_MS)
        /\ (state \in {"MOVING", "RESULT"} /\ ~UpdatePass) =>
              state' = state ]_vars

\* a RESULT pass at RESULT_MS after the onset has stayed in RESULT
C12_Witness ==
    /\ state = "RESULT"
    /\ lastTime = clock
    /\ clock - moveStartTime = RESULT_MS

\* the step is the reset
Reset == state = "RESULT" /\ state' = "CALM"

\* C13 as claimed: the reset brings the trial record back to its values of
\* the constructor, so that CALM begins without the values of the trial
\* before.
C13_FullReset ==
    [][ Reset => trial' = <<0, 0, <<0, 1>>, 0, <<0, 1>>>> ]_vars

\* C13 as amended: the reset clears the noise buffer, the onset counter,
\* the wrist positions and the smoothed speeds, and leaves signalTime,
\* moveStartTime, reactionTime, peakSpeed and noiseLevel as the trial
\* before set them.
C13_ResetKeepsTrial ==
    [][ Reset =>
          /\ trial' = trial
          /\ noiseSamples' = <<>>
          /\ moveCounter' = 0
          /\ prevR' = NULL /\ prevL' = NULL
          /\ smoothR' = 0 /\ smoothL' = 0 ]_vars

\* CALM has begun with the record of the trial before
C13_Witness ==
    /\ state = "CALM"
    /\ noiseSamples = <<>>
    /\ prevR = NULL
    /\ signalTime > 0
    /\ moveStartTime > signalTime
    /\ reactionTime[1] > 0
    /\ peakSpeed > 0
    /\ noiseLevel[1] > 0

\* what SimpleBoxing holds
fields == <<state, signalTime, moveStartTime, reactionTime, peakSpeed, prevR,
            prevL, smoothR, smoothL, noiseSamples, noiseLevel, moveCounter,
            lastTime, waitStart, delay>>

\* C14: a frame without landmarks changes nothing SimpleBoxing holds,
\* lastTime included; the pass of the next frame with landmarks therefore
\* estimates the speeds over the whole time since lastTime.
C14_NoLandmarksNoUpdate ==
    [][ /\ ~UpdatePass => fields' = fields
        /\ (UpdatePass /\ ~Reset) =>
              /\ smoothR' = velocity(prevR', prevR, smoothR, clock' - lastTime).v
              /\ smoothL' = velocity(prevL', prevL, smoothL, clock' - lastTime).v
        ]_vars

\* a pass has measured a displacement over a gap of two frame periods
C14_Witness ==
    /\ lastTime = clock
    /\ Len(hist) = CONSEC_FRAMES
    /\ hist[CONSEC_FRAMES].from = "CALM"
    /\ hist[CONSEC_FRAMES - 1].maxV = 0
    /\ smoothL = rawSpeed(Point(20), Point(0), 2 * Tick) \div 2
    /\ smoothR = 0

\* v is what the estimator is to return for the arguments: 0 when there is
\* no previous position or dt <= 0, else ALPHA * (distance / dt) +
\* (1 - ALPHA) * prevSmooth
Smoothed(v, curr, prev, prevSmooth, dtMs) ==
    IF prev = NULL \/ dtMs <= 0
    THEN v = 0
    ELSE LET q == Rat(dist(curr, prev) * 1000, dtMs)
         IN  v * ALPHA[2] * q[2] =
                ALPHA[1] * q[1] * SpeedDen
                   + (ALPHA[2] - ALPHA[1]) * prevSmooth * q[2]

\* C15: for either wrist, every current position and every previous
\* smoothed speed, velocity returns 0 when the previous position is absent
\* or dt <= 0, whatever the previous smoothed speed, and
\* ALPHA * (distance / dt) + (1 - ALPHA) * prevSmooth otherwise; in both
\* cases the current position becomes the previous one.
C15_Estimator ==
    [][ \E lm \in Landmarks :
          /\ prevR' = lm[15]
          /\ prevL' = lm[16]
          /\ Smoothed(smoothR', lm[15], prevR, smoothR, clock' - lastTime)
          /\ Smoothed(smoothL', lm[16], prevL, smoothL, clock' - lastTime)
      ]_vars

\* one application has found the right wrist without a previous position
\* and with a smoothed speed above 0, and has blended the displacement of
\* the left wrist with its smoothed speed
C15_Witness ==
    /\ events = 1
    /\ clock > lastTime
    /\ hist[1] = NULL /\ hist[3] > 0
    /\ prevR # NULL /\ smoothR = 0
    /\ hist[2] # NULL /\ hist[4] > 0
    /\ prevL # hist[2]
    /\ smoothL > hist[4]

\* an update pass of a frame that comes later than the frame before it
AdvancingPass == UpdatePass /\ clock' > clock

\* what the pass of a phase reads besides the frame and dt
Reads ==
    LET est == <<prevR, prevL, smoothR, smoothL>>
    IN  CASE state = "INIT" -> <<est>>
          [] state = "CALM" -> <<est, Len(noiseSamples)>>
          [] state = "WAIT" -> <<est, clock - waitStart, delay>>
          [] state = "SIGNAL" -> <<est, moveCounter, noiseLevel>>
          [] state = "MOVING" -> <<est, clock - moveStartTime, peakSpeed>>
          [] state = "RESULT" -> <<est, clock - moveStartTime>>

\* C16 as claimed: frames with landmarks and advancing time are enough for
\* every phase to be left. Then no pass of such a frame stays in its phase
\* with all that the phase reads as it was: the same frame one period later
\* would repeat that pass, and so on without end.
C16_EveryPhaseLeft ==
    [][ (AdvancingPass /\ state' = state) => Reads' # Reads ]_vars

\* the passes of advancing frames the phase still needs at most: the samples
\* missing in CALM, the time left of the delay in WAIT (in the fractions of
\* a ms the delay is given in) and the ms left of the windows in MOVING and
\* RESULT
Rank ==
    CASE state = "INIT" -> 1
      [] state = "CALM" -> NOISE_FRAMES - Len(noiseSamples)
      [] state = "WAIT" -> delay[1] + 1 - (clock - waitStart) * delay[2]
      [] state = "SIGNAL" -> 0
      [] state = "MOVING" -> moveStartTime + MOVING_MS + 1 - clock
      [] state = "RESULT" -> moveStartTime + RESULT_MS + 1 - clock

\* C16 as amended: with frames with landmarks and advancing time every
\* phase but SIGNAL is left (each such pass leaves the phase for its
\* successor, or stays with a smaller rank that is still positive), and
\* RESULT is left for CALM; SIGNAL has no timeout and is left by the onset
\* alone, which needs the subject to move.
C16_Progress ==
    [][ /\ (AdvancingPass /\ state # "SIGNAL") =>
              \/ state' = Successor(state)
              \/ state' = state /\ Rank' < Rank /\ Rank' >= 1
        /\ (AdvancingPass /\ state = "SIGNAL") =>
              \/ state' = "SIGNAL" /\ moveCounter' < CONSEC_FRAMES
              \/ state' = "MOVING" /\ PassMaxV > 0
      ]_vars

\* the subject stands still after the cue: pass after pass of advancing
\* frames stays in SIGNAL, up to the bound of the exploration
C16_Witness ==
    /\ state = "SIGNAL"
    /\ lastTime = clock
    /\ clock - signalTime = MaxSignal
    /\ moveCounter = 0
    /\ smoothR = 0 /\ smoothL = 0
    /\ \A i \in 1..CONSEC_FRAMES : hist[i] = [from |-> "SIGNAL", maxV |-> 0, up |-> FALSE]

\* C18: peakSpeed is the maximum of max(speedLeft, speedRight) over the
\* passes begun in MOVING: the onset pass sets it to 0 and leaves its own
\* speed out, every pass begun in MOVING takes the maximum with its speed,
\* the pass that finds the 1000 ms elapsed and enters RESULT included, and
\* no step taken in RESULT changes it.
C18_PeakOverMoving ==
    [][ /\ Onset => peakSpeed' = 0
        /\ (state = "MOVING" /\ UpdatePass) =>
              peakSpeed' = Max(peakSpeed, PassMaxV)
        /\ (state = "MOVING" /\ ~UpdatePass) => peakSpeed' = peakSpeed
        /\ state = "RESULT" => peakSpeed' = peakSpeed ]_vars

\* RESULT is entered with the peak that the pass entering it has measured,
\* above the speed of the pass before it
C18_Witness ==
    /\ state = "RESULT"
    /\ lastTime = clock
    /\ clock - moveStartTime > MOVING_MS
    /\ hist[CONSEC_FRAMES].from = "MOVING"
    /\ hist[CONSEC_FRAMES - 1].from = "MOVING"
    /\ peakSpeed = hist[CONSEC_FRAMES].maxV
    /\ peakSpeed > hist[CONSEC_FRAMES - 1].maxV
    /\ hist[CONSEC_FRAMES - 1].maxV > 0

\* C20: moveCounter lies in 0..CONSEC_FRAMES; it is 0 in INIT, CALM and
\* WAIT, below CONSEC_FRAMES in SIGNAL, and CONSEC_FRAMES in MOVING and
\* RESULT.
C20_MoveCounter ==
    /\ moveCounter \in 0..CONSEC_FRAMES
    /\ state \in {"INIT", "CALM", "WAIT"} => moveCounter = 0
    /\ state = "SIGNAL" => moveCounter < CONSEC_FRAMES
    /\ state \in {"MOVING", "RESULT"} => moveCounter = CONSEC_FRAMES

\* the counter of a second trial, back at 0 after the onset of the first
\* and counting again
C20_Witness ==
    /\ state = "SIGNAL"
    /\ moveCounter = CONSEC_FRAMES - 1
    /\ moveStartTime > 0
    /\ signalTime > moveStartTime

\* C19: the first CALM pass after a reset appends 0 whatever the frame
\* (no previous positions, smoothed speeds 0); the first CALM pass after INIT
\* finds the positions that the INIT pass stored and appends the speed it
\* measures from them; so the noiseLevel of every trial after the first is
\* the sum of NOISE_FRAMES - 1 measured samples over NOISE_FRAMES.
C19_FirstSample ==
    [][ /\ Reset => prevR' = NULL /\ prevL' = NULL
        /\ (state = "INIT" /\ UpdatePass) => prevR' # NULL /\ prevL' # NULL
        /\ (state = "CALM" /\ UpdatePass /\ noiseSamples = <<>>) =>
              IF prevR = NULL /\ prevL = NULL
              THEN noiseSamples' = <<0>>
              ELSE /\ prevR # NULL /\ prevL # NULL
                   /\ Smoothed(smoothR', prevR', prevR, 0, clock' - lastTime)
                   /\ Smoothed(smoothL', prevL', prevL, 0, clock' - lastTime)
                   /\ noiseSamples' = <<PassMaxV>>
        /\ (state = "CALM" /\ state' = "WAIT" /\ moveStartTime > 0) =>
              /\ noiseSamples'[1] = 0
              /\ noiseLevel'[1] * NOISE_FRAMES =
                    SumSeq(Tail(noiseSamples')) * noiseLevel'[2]
      ]_vars

\* the calibration of a second trial has averaged the forced 0 with
\* measured samples
C19_Witness ==
    /\ state = "WAIT"
    /\ moveStartTime > 0
    /\ waitStart > moveStartTime
    /\ noiseSamples[1] = 0
    /\ noiseSamples[NOISE_FRAMES] > 0
    /\ noiseLevel[1] * NOISE_FRAMES = SumSeq(Tail(noiseSamples)) * noiseLevel[2]

\* the first sample of the first trial is a measured speed
C19_Measured ==
    /\ state = "CALM"
    /\ moveStartTime = 0
    /\ Len(noiseSamples) = 1
    /\ noiseSamples[1] > 0

\* C17: one trial of a subject in steady motion. The NOISE_FRAMES frames
\* of speed 0.01 give noiseLevel = 0.01 and enter WAIT; the first pass
\* after the delay has elapsed enters SIGNAL; the threshold is
\* max(0.03, 0.03) = 0.03 and MOVING is entered by the second of two
\* consecutive frames of speed 0.5, with reactionTime the time from the
\* signal to that frame; the first pass more than 1000 ms after the onset
\* enters RESULT with peakSpeed = 0.9; the first pass more than 3000 ms
\* after the onset enters CALM with an empty noise buffer.
C17_Trial ==
    [][ /\ (state = "CALM" /\ state' = "WAIT") =>
              /\ Len(noiseSamples') = NOISE_FRAMES
              /\ \A i \in 1..NOISE_FRAMES : noiseSamples'[i] = Speed(1)
              /\ noiseLevel' = <<Speed(1), 1>>
        /\ (state = "CALM" /\ UpdatePass /\ ~TrialDone) =>
              (state' = "WAIT" <=> Len(noiseSamples) = NOISE_FRAMES - 1)
        /\ (state = "WAIT" /\ UpdatePass) =>
              (state' = "SIGNAL" <=>
                 (clock' - waitStart) * delay[2] > delay[1])
        /\ state = "SIGNAL" =>
              /\ noiseLevel[1] * START_FACTOR = Speed(3) * noiseLevel[2]
              /\ MIN_START_VEL = Speed(3)
        /\ (state = "SIGNAL" /\ UpdatePass) =>
              (state' = "MOVING" <=>
                 \A i \in 1..CONSEC_FRAMES :
                    hist'[i] = [from |-> "SIGNAL", maxV |-> Speed(50),
                                up |-> FALSE])
        /\ Onset =>
              /\ moveStartTime' = clock'
              /\ reactionTime'[1] * 1000 =
                    (clock' - signalTime) * reactionTime'[2]
        /\ (state = "MOVING" /\ UpdatePass) =>
              (state' = "RESULT" <=> clock' - moveStartTime > MOVING_MS)
        /\ (state = "MOVING" /\ state' = "RESULT") => peakSpeed' = Speed(90)
        /\ (state = "RESULT" /\ UpdatePass) =>
              /\ state' = "CALM" <=> clock' - moveStartTime > RESULT_MS
              /\ state' = "CALM" => noiseSamples' = <<>>
      ]_vars

\* the trial is over: the machine is back in CALM with an empty buffer and
\* with the figures of the trial
C17_Witness ==
    /\ TrialDone
    /\ noiseSamples = <<>>
    /\ noiseLevel = <<Speed(1), 1>>
    /\ peakSpeed = Speed(90)
    /\ reactionTime[1] * 1000 = (moveStartTime - signalTime) * reactionTime[2]
    /\ (signalTime - waitStart) * delay[2] > delay[1]
    /\ clock - moveStartTime > RESULT_MS

====
